---- MODULE Spec2Model ----
(***************************************************************************)
(* setop (src/src/main.cpp): the streaming tokenizer file_to_set, the set  *)
(* algebra and the query evaluation of execute_setop, and main's mapping   *)
(* of outcomes to exit codes.                                              *)
(*                                                                         *)
(* Strings are sequences of one-character strings.  Positions in a buffer  *)
(* are offsets 0..Len(buffer): position p lies before character p+1.       *)
(***************************************************************************)
EXTENDS Integers, Sequences, FiniteSets, TLC

VARIABLES
    input_opts,        \* the global InputOptions object
    inputfile,         \* the source read by the file_to_set call under study
    buffersize, used_buffer, buffer, rdpos, inputstream, result, tpc,
    opt_map,           \* the options given on the command line
    input_filenames, setdifference_filenames, query_filename,
                       \* the sources named on the command line, as far as read
    set_concat_type, set_query_type,
    output_set, curr_set, set_to_check, element_to_check,
    success,           \* the answer handed to answer_query
    cout, exit_code, pc

tokvars == <<inputfile, buffersize, used_buffer, buffer, rdpos, inputstream, result, tpc>>
runvars == <<opt_map, input_filenames, setdifference_filenames, query_filename,
             set_concat_type, set_query_type, output_set, curr_set, set_to_check,
             element_to_check, success, cout, exit_code, pc>>
vars == <<input_opts, tokvars, runvars>>

(***************************************************************************)
(* Bounds of the model.                                                    *)
(***************************************************************************)
MaxLen == 4        \* longest stream of the tokenizer specification
MaxCap == 3        \* largest scaled-down initial buffer capacity
MaxSources == 4    \* most input and subtrahend sources of a run, taken together

(***************************************************************************)
(* Program constants.                                                      *)
(***************************************************************************)
INITIAL_BUFFERSIZE == 4096
EXIT_SUCCESS == 0
EXIT_FAILURE == 1
EXIT_QUERY_NEGATIVE == 3

Min2(a, b) == IF a < b THEN a ELSE b

(***************************************************************************)
(* Characters and the two comparators.                                     *)
(***************************************************************************)
Code(c) ==
    CASE c = "\n" -> 10
      [] c = " "  -> 32
      [] c = "A"  -> 65
      [] c = "B"  -> 66
      [] c = "a"  -> 97
      [] c = "b"  -> 98

ToLower(c) ==
    CASE c = "A" -> "a"
      [] c = "B" -> "b"
      [] OTHER   -> c

RECURSIVE lexicographical_compare(_, _)
lexicographical_compare(x, y) ==
    IF y = <<>> THEN FALSE
    ELSE IF x = <<>> THEN TRUE
    ELSE IF Code(Head(x)) < Code(Head(y)) THEN TRUE
    ELSE IF Code(Head(y)) < Code(Head(x)) THEN FALSE
    ELSE lexicographical_compare(Tail(x), Tail(y))

RECURSIVE ilexicographical_compare(_, _)
ilexicographical_compare(x, y) ==
    IF y = <<>> THEN FALSE
    ELSE IF x = <<>> THEN TRUE
    ELSE IF Code(ToLower(Head(x))) < Code(ToLower(Head(y))) THEN TRUE
    ELSE IF Code(ToLower(Head(y))) < Code(ToLower(Head(x))) THEN FALSE
    ELSE ilexicographical_compare(Tail(x), Tail(y))

\* input_opts.element_comp: ignore_case selects the comparator
element_comp(x, y) ==
    IF input_opts.ignore_case THEN ilexicographical_compare(x, y)
    ELSE lexicographical_compare(x, y)

\* two keys are equivalent for std::set when neither is less than the other
Equiv(x, y) == ~element_comp(x, y) /\ ~element_comp(y, x)

(***************************************************************************)
(* set_t: std::set<element_t, el_comp_t>, as the set of its stored strings.*)
(***************************************************************************)
set_find(S, e) == {x \in S : Equiv(x, e)}

InsertAlways(S, e) == S \cup {e}

set_insert(S, e) == IF set_find(S, e) # {} THEN S ELSE S \cup {e}

EraseExact(S, e) == S \ {e}

set_erase(S, e) == S \ set_find(S, e)

\* the stored strings in the comparator's order (iteration order of the set)
RECURSIVE set_order(_)
set_order(S) ==
    IF S = {} THEN <<>>
    ELSE LET m == CHOOSE x \in S : \A y \in S : ~element_comp(y, x)
         IN  <<m>> \o set_order(S \ {m})

RECURSIVE insert_range(_, _)
insert_range(S, els) ==
    IF els = <<>> THEN S ELSE insert_range(set_insert(S, Head(els)), Tail(els))

(***************************************************************************)
(* boost::trim_if(el_str, is_any_of(trim_characters))                      *)
(***************************************************************************)
RECURSIVE trim_left(_, _)
trim_left(s, tc) ==
    IF s # <<>> /\ Head(s) \in tc THEN trim_left(Tail(s), tc) ELSE s

RECURSIVE trim_right(_, _)
trim_right(s, tc) ==
    IF s # <<>> /\ s[Len(s)] \in tc THEN trim_right(SubSeq(s, 1, Len(s) - 1), tc) ELSE s

trim_if(s, tc) == trim_right(trim_left(s, tc), tc)

(***************************************************************************)
(* The pattern engine (boost::regex, Perl/ECMAScript backtracking rules).  *)
(* A regex is an optional start-of-line assertion followed by a sequence   *)
(* of greedy quantified character classes: min 0 or 1, max 1 or unbounded. *)
(***************************************************************************)
Atom(cls, min, inf) == [cls |-> cls, min |-> min, inf |-> inf]
Regex(bol, atoms) == [empty |-> FALSE, bol |-> bol, atoms |-> atoms]
NoRegex == [empty |-> TRUE, bol |-> FALSE, atoms |-> <<>>]

NoMatch == [found |-> FALSE, matched |-> FALSE, first |-> 0, second |-> 0]

is_separator(c) == c = "\n"

can_be_null(re) == \A k \in 1..Len(re.atoms) : re.atoms[k].min = 0

RECURSIVE CountRun(_, _, _)
CountRun(txt, i, cls) ==
    IF i < Len(txt) /\ txt[i + 1] \in cls THEN 1 + CountRun(txt, i + 1, cls) ELSE 0

\* how many characters the k-th atom can take at position i, greedily
Avail(re, txt, k, i) ==
    LET n == CountRun(txt, i, re.atoms[k].cls)
    IN  IF re.atoms[k].inf THEN n ELSE Min2(n, 1)

\* match_match: the end state accepts unless a flag forbids this end position
match_match(f, txt, i) ==
    /\ f.match_all => i = Len(txt)
    /\ f.not_initial_null => i # f.search_base

\* match_all_states: end of the first accepted path in backtracking order, or -1
RECURSIVE match_all_states(_, _, _, _, _)
RECURSIVE unwind(_, _, _, _, _, _)
match_all_states(re, f, txt, k, i) ==
    IF k > Len(re.atoms)
    THEN IF match_match(f, txt, i) THEN i ELSE -1
    ELSE LET n == Avail(re, txt, k, i)
         IN  IF n < re.atoms[k].min THEN -1 ELSE unwind(re, f, txt, k, i, n)
unwind(re, f, txt, k, i, c) ==
    LET r == match_all_states(re, f, txt, k + 1, i + c)
    IN  IF r # -1 THEN r
        ELSE IF c > re.atoms[k].min THEN unwind(re, f, txt, k, i, c - 1)
        ELSE -1

\* m_has_partial_match: some explored path fails in a state with position == last
RECURSIVE has_partial_match(_, _, _, _)
has_partial_match(re, txt, k, i) ==
    IF k > Len(re.atoms) THEN FALSE
    ELSE LET n == Avail(re, txt, k, i)
         IN  IF n < re.atoms[k].min THEN i = Len(txt)
             ELSE \E c \in re.atoms[k].min..n : has_partial_match(re, txt, k + 1, i + c)

\* match_start_line: ^ holds at the start of the searched range and after a line separator
match_start_line(txt, p) == p = 0 \/ is_separator(txt[p])

\* match_prefix: a full match at p, else a partial match from p to the end of the text
match_prefix(re, f, txt, p) ==
    LET bolok == ~re.bol \/ match_start_line(txt, p)
        e     == IF bolok THEN match_all_states(re, f, txt, 1, p) ELSE -1
        part  == /\ f.match_partial
                 /\ Len(txt) # f.search_base
                 /\ IF bolok THEN has_partial_match(re, txt, 1, p) ELSE p = Len(txt)
    IN  IF e # -1 THEN [found |-> TRUE, matched |-> TRUE, first |-> p, second |-> e]
        ELSE IF part THEN [found |-> TRUE, matched |-> FALSE, first |-> p, second |-> Len(txt)]
        ELSE NoMatch

\* find_restart_any / find_restart_line: the leftmost position with a match
RECURSIVE find_restart(_, _, _, _)
find_restart(re, f, txt, p) ==
    IF p > Len(txt) THEN NoMatch
    ELSE IF p = Len(txt) /\ ~can_be_null(re) THEN NoMatch
    ELSE LET m == match_prefix(re, f, txt, p)
         IN  IF m.found THEN m ELSE find_restart(re, f, txt, p + 1)

regex_search(re, f, txt, from) == find_restart(re, f, txt, from)

\* boost::regex_match(first, last, re, flags) on the text txt
regex_match(re, txt, partial) ==
    match_prefix(re, [match_all |-> TRUE, not_initial_null |-> FALSE,
                      search_base |-> 0, match_partial |-> partial], txt, 0).found

\* cregex_iterator(begin, end, re, flags) and its operator++
regex_iterator(re, txt, partial) ==
    regex_search(re, [match_all |-> FALSE, not_initial_null |-> FALSE,
                      search_base |-> 0, match_partial |-> partial], txt, 0)

regex_iterator_next(re, txt, partial, m) ==
    regex_search(re, [match_all |-> FALSE, not_initial_null |-> (m.second = m.first),
                      search_base |-> m.second, match_partial |-> partial], txt, m.second)

(***************************************************************************)
(* Input sources.  A source is its bytes, whether it can be opened, and    *)
(* the offset at which the device fails when read (NoFail: it never does). *)
(***************************************************************************)
NoFail == -1
NoExit == -1

Source(content, can_open, fail_at) ==
    [content |-> content, can_open |-> can_open, fail_at |-> fail_at]

\* inputstream.read(buffer + used_buffer, n): gcount() and the stream's state after it.
\* A short read sets eofbit and failbit; a device error sets badbit and counts nothing.
istream_read(file, pos, n) ==
    IF file.fail_at # NoFail /\ pos + n > file.fail_at
    THEN [gcount |-> 0, good |-> FALSE]
    ELSE LET got == Min2(n, Len(file.content) - pos)
         IN  [gcount |-> got, good |-> (got = n)]

(***************************************************************************)
(* file_to_set                                                             *)
(***************************************************************************)
\* the lambda adjust_and_insert_element, on the set res
InsertUntrimmed(res, el_str, check_element_regex) == set_insert(res, el_str)

adjust_and_insert_element(res, el_str, check_element_regex) ==
    IF \/ ~check_element_regex
       \/ input_opts.input_element_regex.empty
       \/ regex_match(input_opts.input_element_regex, el_str, FALSE)
    THEN LET trimmed == trim_if(el_str, input_opts.trim_characters)
         IN  IF trimmed # <<>> \/ input_opts.include_empty_elements
             THEN set_insert(res, trimmed)
             ELSE res
    ELSE res

use_separator_regex == input_opts.input_element_regex.empty

regex == IF use_separator_regex THEN input_opts.input_separator_regex
         ELSE input_opts.input_element_regex

\* the second conjunct of the while condition: the stream is at its end, or the
\* match does not touch the end of the buffer
safe_to_finalize(buf, good, m) ==
    \/ ~good
    \/ ~regex_match(regex, SubSeq(buf, m.first + 1, Len(buf)), TRUE)

\* lines 231-239: the element a finalized match yields
emit_element(res, buf, h, m) ==
    IF use_separator_regex
    THEN adjust_and_insert_element(res, SubSeq(buf, h + 1, m.first), TRUE)
    ELSE adjust_and_insert_element(res, SubSeq(buf, m.first + 1, m.second), FALSE)

\* the while loop over the matches of one buffer: h is buffer_handled_until
RECURSIVE match_loop(_, _, _, _, _)
match_loop(buf, good, m, h, res) ==
    IF m.found /\ m.matched /\ safe_to_finalize(buf, good, m)
    THEN match_loop(buf, good, regex_iterator_next(regex, buf, TRUE, m),
                    IF use_separator_regex THEN m.second ELSE h,
                    emit_element(res, buf, h, m))
    ELSE [m |-> m, h |-> h, res |-> res]

\* the locals of file_to_set at the head of the do-while loop
tok_init(cap) ==
    [buffersize |-> cap, used_buffer |-> 0, buffer |-> <<>>, rdpos |-> 0,
     inputstream |-> TRUE, result |-> {}]

\* lines 242-246: buffer_handled_until after the while loop
handled_until(buf, lp) ==
    IF use_separator_regex THEN lp.h
    ELSE IF lp.m.found THEN lp.m.first ELSE Len(buf)

\* lines 248-261: the pending bytes are carried to the start of the buffer, which is
\* doubled when nothing was handled; buffer holds the used_buffer pending bytes
carry_pending(t, rd, buf, h, res) ==
    [buffersize  |-> IF h = 0 THEN t.buffersize * 2 ELSE t.buffersize,
     used_buffer |-> Len(buf) - h,
     buffer      |-> SubSeq(buf, h + 1, Len(buf)),
     rdpos       |-> t.rdpos + rd.gcount,
     inputstream |-> rd.good,
     result      |-> res]

finish_round(t, rd, buf, lp) == carry_pending(t, rd, buf, handled_until(buf, lp), lp.res)

\* lines 223-241 on the filled buffer buf
scan_buffer(t, rd, buf) ==
    finish_round(t, rd, buf,
                 match_loop(buf, rd.good, regex_iterator(regex, buf, TRUE), 0, t.result))

\* lines 215-216: the bytes read are appended to the pending bytes
fill_buffer(file, t, rd) ==
    scan_buffer(t, rd, t.buffer \o SubSeq(file.content, t.rdpos + 1, t.rdpos + rd.gcount))

\* one iteration of the do-while loop
refill_round(file, t) ==
    fill_buffer(file, t, istream_read(file, t.rdpos, t.buffersize - t.used_buffer))

\* after the loop: the leftover pending bytes are the last element in separator mode
final_element(t) ==
    IF use_separator_regex /\ t.used_buffer > 0
    THEN adjust_and_insert_element(t.result, t.buffer, TRUE)
    ELSE t.result

\* while (inputstream)
RECURSIVE refill_loop(_, _)
RECURSIVE loop_while(_, _)
refill_loop(file, t) == loop_while(file, refill_round(file, t))
loop_while(file, t) == IF t.inputstream THEN refill_loop(file, t) ELSE t

\* the whole call on an opened source, with the given initial capacity
tokenize(file, cap) == final_element(refill_loop(file, tok_init(cap)))

\* file_to_set(filename): throws std::runtime_error when the source cannot be opened
file_to_set(file) ==
    IF ~file.can_open THEN [threw |-> TRUE, set |-> {}]
    ELSE [threw |-> FALSE, set |-> tokenize(file, INITIAL_BUFFERSIZE)]

(***************************************************************************)
(* Inputs of the tokenizer specification.                                  *)
(***************************************************************************)
TokChars == {"a", "b", "\n"}

RECURSIVE SeqsUpTo(_, _)
SeqsUpTo(S, n) ==
    IF n = 0 THEN {<<>>}
    ELSE LET prev == SeqsUpTo(S, n - 1)
         IN  prev \cup {Append(s, c) : s \in {x \in prev : Len(x) = n - 1}, c \in S}

Streams == SeqsUpTo(TokChars, MaxLen)

re_newline  == Regex(FALSE, <<Atom({"\n"}, 1, FALSE)>>)                       \* \n
re_newlines == Regex(FALSE, <<Atom({"\n"}, 1, TRUE)>>)                        \* \n+
re_ab       == Regex(FALSE, <<Atom({"a"}, 1, FALSE), Atom({"b"}, 1, FALSE)>>) \* ab
re_a_plus   == Regex(FALSE, <<Atom({"a"}, 1, TRUE)>>)                         \* a+
re_a_star   == Regex(FALSE, <<Atom({"a"}, 0, TRUE)>>)                         \* a*
re_a_plus_b == Regex(FALSE, <<Atom({"a"}, 1, TRUE), Atom({"b"}, 1, FALSE)>>)  \* a+b
re_bol_a    == Regex(TRUE,  <<Atom({"a"}, 1, FALSE)>>)                        \* ^a

Patterns == {re_newline, re_newlines, re_ab, re_a_plus, re_a_star, re_a_plus_b, re_bol_a}

InputOptions(ic, inc, el, sep, tc) ==
    [ignore_case |-> ic, include_empty_elements |-> inc, input_element_regex |-> el,
     input_separator_regex |-> sep, trim_characters |-> tc]

TokOptions ==
    {InputOptions(FALSE, inc, el, sep, tc) :
        inc \in BOOLEAN, el \in Patterns \cup {NoRegex},
        sep \in Patterns \cup {NoRegex}, tc \in {{}, {"b"}}}

\* execute_setop leaves no run without an active pattern; with an element pattern
\* the separator pattern is the user's or none
TokConfigs ==
    {o \in TokOptions :
        /\ o.input_element_regex.empty => ~o.input_separator_regex.empty
        /\ ~o.input_element_regex.empty => o.input_separator_regex \in {NoRegex, re_newline}
        /\ o.include_empty_elements => o.trim_characters # {}}

Capacities == (1..MaxCap) \cup {INITIAL_BUFFERSIZE}

RunIdle ==
    /\ opt_map = {} /\ input_filenames = <<>> /\ setdifference_filenames = <<>>
    /\ query_filename = "" /\ set_concat_type = "UNION" /\ set_query_type = "RETURN_SET"
    /\ output_set = {} /\ curr_set = {} /\ set_to_check = {} /\ element_to_check = <<>>
    /\ success = "none" /\ cout = <<>> /\ exit_code = NoExit /\ pc = "idle"

InitTok ==
    /\ input_opts \in TokConfigs
    /\ inputfile \in {Source(s, TRUE, NoFail) : s \in Streams}
                     \cup {Source(<<"a", "\n", "b">>, FALSE, NoFail),
                           Source(<<"a", "\n", "b">>, TRUE, 2)}
    /\ buffersize \in Capacities
    /\ used_buffer = 0 /\ buffer = <<>> /\ rdpos = 0 /\ inputstream = TRUE
    /\ result = {} /\ tpc = "open"
    /\ RunIdle

CurTok ==
    [buffersize |-> buffersize, used_buffer |-> used_buffer, buffer |-> buffer,
     rdpos |-> rdpos, inputstream |-> inputstream, result |-> result]

SetTok(t) ==
    /\ buffersize' = t.buffersize /\ used_buffer' = t.used_buffer /\ buffer' = t.buffer
    /\ rdpos' = t.rdpos /\ inputstream' = t.inputstream /\ result' = t.result

\* lines 141-148: open the source or throw
TokOpen ==
    /\ tpc = "open"
    /\ tpc' = IF inputfile.can_open THEN "loop" ELSE "threw"
    /\ UNCHANGED <<input_opts, inputfile, buffersize, used_buffer, buffer, rdpos,
                   inputstream, result, runvars>>

\* lines 213-262: one refill round
TokRound ==
    /\ tpc = "loop"
    /\ SetTok(refill_round(inputfile, CurTok))
    /\ tpc' = IF inputstream' THEN "loop" ELSE "final"
    /\ UNCHANGED <<input_opts, inputfile, runvars>>

\* lines 264-267: the last element, and return
TokFinal ==
    /\ tpc = "final"
    /\ result' = final_element(CurTok)
    /\ tpc' = "done"
    /\ UNCHANGED <<input_opts, inputfile, buffersize, used_buffer, buffer, rdpos,
                   inputstream, runvars>>

NextTok == TokOpen \/ TokRound \/ TokFinal

SpecTok == InitTok /\ [][NextTok]_vars

(***************************************************************************)
(* execute_setop and main.                                                 *)
(***************************************************************************)
quiet == FALSE      \* --quiet, default_value(false)
verbose == FALSE    \* --verbose, default_value(false)

\* the sources a command line can name
FileNames == {"A.txt", "B.txt", "missing", "dir"}

FileSystem(name) ==
    CASE name = "A.txt"   -> Source(<<"a", " ", "\n", "b", "\n">>, TRUE, NoFail)
      [] name = "B.txt"   -> Source(<<"A", "\n", " ", "a", "\n", "B">>, TRUE, NoFail)
      [] name = "missing" -> Source(<<>>, FALSE, NoFail)
      [] name = "dir"     -> Source(<<"a", "\n">>, TRUE, 0)

\* the elements --contains can ask for
ElementsToCheck == {<<"a">>, <<" ", "A", " ">>, <<"B">>}

ConcatOptions == {"union", "intersection", "symmetric-difference"}
QueryOptions == {"cardinality", "is-empty", "subset", "superset", "contains", "equal"}

\* the option sets of the model: at most one option of each group, or one conflict
OptionSets ==
    {c \cup q :
        c \in {{}, {"intersection"}, {"symmetric-difference"}, {"union", "intersection"}},
        q \in {{}} \cup {{o} : o \in QueryOptions} \cup {{"cardinality", "is-empty"}}}

\* lines 414-417
concat_type(opts) ==
    IF "intersection" \in opts THEN "INTERSECTION"
    ELSE IF "symmetric-difference" \in opts THEN "SYM_DIFFERENCE"
    ELSE "UNION"

\* lines 422-429
query_type(opts) ==
    IF "cardinality" \in opts THEN "CARDINALITY"
    ELSE IF "is-empty" \in opts THEN "ISEMPTY"
    ELSE IF "subset" \in opts THEN "SUBSET"
    ELSE IF "superset" \in opts THEN "SUPERSET"
    ELSE IF "contains" \in opts THEN "CONTAINS_ELEMENT"
    ELSE IF "equal" \in opts THEN "SET_EQUALITY"
    ELSE "RETURN_SET"

\* case INTERSECTION: the elements of output_set that curr_set finds
KeepAll(acc, cs) == acc

set_intersection(acc, cs) == {el \in acc : set_find(cs, el) # {}}

\* case SYM_DIFFERENCE: toggle each element of curr_set, in its order
RECURSIVE toggle(_, _)
toggle(acc, els) ==
    IF els = <<>> THEN acc
    ELSE toggle(IF set_find(acc, Head(els)) # {} THEN set_erase(acc, Head(els))
                ELSE set_insert(acc, Head(els)),
                Tail(els))

InsertOnly(acc, cs) == insert_range(acc, set_order(cs))

sym_difference(acc, cs) == toggle(acc, set_order(cs))

\* the body of the loop over the input sources, lines 484-515
concat_step(first, type, acc, cs) ==
    IF first THEN cs
    ELSE CASE type = "UNION"          -> insert_range(acc, set_order(cs))
           [] type = "INTERSECTION"   -> set_intersection(acc, cs)
           [] type = "SYM_DIFFERENCE" -> sym_difference(acc, cs)

\* lines 524-525: erase every element of curr_diff
RECURSIVE erase_exact_all(_, _)
erase_exact_all(acc, els) ==
    IF els = <<>> THEN acc ELSE erase_exact_all(EraseExact(acc, Head(els)), Tail(els))

RECURSIVE erase_all(_, _)
erase_all(acc, els) ==
    IF els = <<>> THEN acc ELSE erase_all(set_erase(acc, Head(els)), Tail(els))

SubtractExact(acc, cd) == erase_exact_all(acc, set_order(cd))

subtract(acc, cd) == erase_all(acc, set_order(cd))

\* std::all_of(a.begin(), a.end(), [&b](str) { return b.find(str) != b.end(); })
all_found_in(a, b) == \A str \in a : set_find(b, str) # {}

SupersetTest(out, chk) == all_found_in(out, chk)

\* case SUBSET, lines 577-578
subset_test(out, chk) == all_found_in(chk, out)

\* case SUPERSET, lines 586-587
superset_test(out, chk) == all_found_in(out, chk)

\* operator== of std::set: the same size and the same strings in the same order
set_equal(a, b) == set_order(a) = set_order(b)

\* answer_query: what is written to std::cout, and the exit code
answer_query(ok, unsuccess_msg) ==
    IF ok THEN [out |-> IF verbose THEN <<"success_msg">> ELSE <<>>, code |-> EXIT_SUCCESS]
    ELSE [out |-> IF ~quiet THEN <<unsuccess_msg>> ELSE <<>>, code |-> EXIT_QUERY_NEGATIVE]

InitRun ==
    /\ input_opts \in {InputOptions(ic, FALSE, NoRegex, re_newline, {" "}) : ic \in BOOLEAN}
    /\ opt_map \in OptionSets
    /\ input_filenames = <<>> /\ setdifference_filenames = <<>> /\ query_filename = ""
    /\ set_concat_type = "UNION" /\ set_query_type = "RETURN_SET"
    /\ output_set = {} /\ curr_set = {} /\ set_to_check = {} /\ element_to_check = <<>>
    /\ success = "none" /\ cout = <<>> /\ exit_code = NoExit /\ pc = "options"
    /\ inputfile = Source(<<>>, TRUE, NoFail)
    /\ buffersize = INITIAL_BUFFERSIZE /\ used_buffer = 0 /\ buffer = <<>> /\ rdpos = 0
    /\ inputstream = TRUE /\ result = {} /\ tpc = "idle"

\* main's catch clauses: print_error and EXIT_FAILURE
Abort ==
    /\ exit_code' = EXIT_FAILURE
    /\ pc' = "done"

\* lines 412-429: the plausibility checks of the options
CheckOptions ==
    /\ pc = "options"
    /\ IF \/ Cardinality(opt_map \cap ConcatOptions) > 1
          \/ Cardinality(opt_map \cap QueryOptions) > 1
       THEN /\ Abort
            /\ UNCHANGED <<set_concat_type, set_query_type>>
       ELSE /\ set_concat_type' = concat_type(opt_map)
            /\ set_query_type' = query_type(opt_map)
            /\ pc' = "inputs"
            /\ UNCHANGED exit_code
    /\ UNCHANGED <<input_opts, tokvars, opt_map, input_filenames, setdifference_filenames,
                   query_filename, output_set, curr_set, set_to_check, element_to_check,
                   success, cout>>

\* lines 482-515 with the set r read from the source, or the exception it threw
Combine(r) ==
    IF r.threw
    THEN /\ Abort
         /\ UNCHANGED <<output_set, curr_set>>
    ELSE /\ curr_set' = r.set
         /\ output_set' = concat_step(input_filenames = <<>>, set_concat_type,
                                      output_set, r.set)
         /\ UNCHANGED <<pc, exit_code>>

\* lines 523-525 with the set r read from the source, or the exception it threw
Subtract(r) ==
    IF r.threw
    THEN /\ Abort
         /\ UNCHANGED <<output_set, curr_set>>
    ELSE /\ curr_set' = r.set
         /\ output_set' = subtract(output_set, r.set)
         /\ UNCHANGED <<pc, exit_code>>

\* the comparison of lines 568-590 with the set r read from the comparison source
compare_sets(type, out, chk) ==
    CASE type = "SET_EQUALITY" -> set_equal(chk, out)
      [] type = "SUBSET"       -> subset_test(out, chk)
      [] type = "SUPERSET"     -> superset_test(out, chk)

Answer(ok, a) ==
    /\ success' = ok
    /\ cout' = a.out
    /\ exit_code' = a.code
    /\ pc' = "done"

Compare(r) ==
    IF r.threw
    THEN /\ Abort
         /\ UNCHANGED <<set_to_check, success, cout>>
    ELSE /\ set_to_check' = r.set
         /\ Answer(compare_sets(set_query_type, output_set, set_to_check'),
                   answer_query(compare_sets(set_query_type, output_set, set_to_check'),
                                "is not"))

\* lines 480-516: one iteration of the loop over input_filenames
ReadInput(fn) ==
    /\ pc = "inputs"
    /\ Len(input_filenames) + Len(setdifference_filenames) < MaxSources
    /\ input_filenames' = Append(input_filenames, fn)
    /\ Combine(file_to_set(FileSystem(fn)))
    /\ UNCHANGED <<input_opts, tokvars, opt_map, setdifference_filenames, query_filename,
                   set_concat_type, set_query_type, set_to_check, element_to_check,
                   success, cout>>

\* the loop over input_filenames ends
EndInputs ==
    /\ pc = "inputs"
    /\ input_filenames # <<>>
    /\ pc' = "differences"
    /\ UNCHANGED <<input_opts, tokvars, opt_map, input_filenames, setdifference_filenames,
                   query_filename, set_concat_type, set_query_type, output_set, curr_set,
                   set_to_check, element_to_check, success, cout, exit_code>>

\* lines 521-526: one iteration of the loop over setdifference_filenames
ReadDifference(fn) ==
    /\ pc = "differences"
    /\ Len(input_filenames) + Len(setdifference_filenames) < MaxSources
    /\ setdifference_filenames' = Append(setdifference_filenames, fn)
    /\ Subtract(file_to_set(FileSystem(fn)))
    /\ UNCHANGED <<input_opts, tokvars, opt_map, input_filenames, query_filename,
                   set_concat_type, set_query_type, set_to_check, element_to_check,
                   success, cout>>

\* lines 548-594, the queries that read nothing more
QueryOnSet(el) ==
    /\ pc = "differences"
    /\ set_query_type \in {"RETURN_SET", "CARDINALITY", "ISEMPTY", "CONTAINS_ELEMENT"}
    /\ CASE set_query_type = "RETURN_SET" ->
              /\ cout' = set_order(output_set)
              /\ exit_code' = EXIT_SUCCESS
              /\ pc' = "done"
              /\ UNCHANGED <<success, element_to_check>>
         [] set_query_type = "CARDINALITY" ->
              /\ cout' = <<Cardinality(output_set)>>
              /\ exit_code' = EXIT_SUCCESS
              /\ pc' = "done"
              /\ UNCHANGED <<success, element_to_check>>
         [] set_query_type = "ISEMPTY" ->
              /\ Answer(output_set = {},
                        answer_query(output_set = {}, "Resulting set is not empty."))
              /\ UNCHANGED element_to_check
         [] set_query_type = "CONTAINS_ELEMENT" ->
              /\ element_to_check' = trim_if(el, input_opts.trim_characters)
              /\ Answer(set_find(output_set, element_to_check') # {},
                        answer_query(set_find(output_set, element_to_check') # {},
                                     "Input does not contain element."))
    /\ UNCHANGED <<input_opts, tokvars, opt_map, input_filenames, setdifference_filenames,
                   query_filename, set_concat_type, set_query_type, output_set, curr_set,
                   set_to_check>>

\* lines 568-590, the queries that read a comparison source
QueryOnFile(fn) ==
    /\ pc = "differences"
    /\ set_query_type \in {"SET_EQUALITY", "SUBSET", "SUPERSET"}
    /\ query_filename' = fn
    /\ Compare(file_to_set(FileSystem(fn)))
    /\ UNCHANGED <<input_opts, tokvars, opt_map, input_filenames, setdifference_filenames,
                   set_concat_type, set_query_type, output_set, curr_set, element_to_check>>

Next ==
    \/ CheckOptions
    \/ \E fn \in FileNames : ReadInput(fn)
    \/ EndInputs
    \/ \E fn \in FileNames : ReadDifference(fn)
    \/ \E el \in ElementsToCheck : QueryOnSet(el)
    \/ \E fn \in FileNames : QueryOnFile(fn)

Spec == InitRun /\ [][Next]_vars

(***************************************************************************)
(* Reference definitions for the properties of the tokenizer.              *)
(***************************************************************************)
\* the runs between the successive matches of re over the whole text, and the bytes
\* after the last match when there are any
RECURSIVE SplitRuns(_, _, _, _)
SplitRuns(re, txt, m, h) ==
    IF m.found
    THEN {SubSeq(txt, h + 1, m.first)}
            \cup SplitRuns(re, txt, regex_iterator_next(re, txt, FALSE, m), m.second)
    ELSE IF h < Len(txt) THEN {SubSeq(txt, h + 1, Len(txt))} ELSE {}

\* the successive full matches of re over the whole text
RECURSIVE FullMatches(_, _, _)
FullMatches(re, txt, m) ==
    IF m.found
    THEN {SubSeq(txt, m.first + 1, m.second)}
            \cup FullMatches(re, txt, regex_iterator_next(re, txt, FALSE, m))
    ELSE {}

\* each candidate trimmed, and kept unless it is empty and include-empty is off
Normalized(cands) ==
    {el \in {trim_if(c, input_opts.trim_characters) : c \in cands} :
        el # <<>> \/ input_opts.include_empty_elements}

ReferenceSplit(txt) ==
    Normalized(SplitRuns(input_opts.input_separator_regex, txt,
                         regex_iterator(input_opts.input_separator_regex, txt, FALSE), 0))

ReferenceMatches(txt) ==
    Normalized(FullMatches(input_opts.input_element_regex, txt,
                           regex_iterator(input_opts.input_element_regex, txt, FALSE)))

\* the call under study has returned the set of a source that was read to its end
Tokenized == tpc = "done" /\ inputfile.fail_at = NoFail

Anchored == regex.bol

(***************************************************************************)
(* Properties of the tokenizer, under SpecTok.                             *)
(***************************************************************************)
\* C1: buffer-boundary independence.  For every stream and every configuration the set
\* file_to_set returns is the same for every initial buffer capacity: the set built
\* through refill rounds equals the set built with a buffer that holds the whole
\* stream in one read.
C1_BufferBoundaryIndependence ==
    Tokenized => result = tokenize(inputfile, INITIAL_BUFFERSIZE)

\* The same for the patterns without a start-of-line assertion.
BufferBoundaryIndependenceUnanchored ==
    Tokenized /\ ~Anchored => result = tokenize(inputfile, INITIAL_BUFFERSIZE)

SeparatorModeIsReferenceSplitUnanchored ==
    Tokenized /\ use_separator_regex /\ ~Anchored => result = ReferenceSplit(inputfile.content)

\* C3: in element mode the set built from a stream is the set of the normalized full
\* successive matches of the element pattern over the whole stream, whatever the
\* separator pattern is.
C3_ElementModeIsFullMatches ==
    Tokenized /\ ~use_separator_regex => result = ReferenceMatches(inputfile.content)

\* The same for the element patterns without a start-of-line assertion.
ElementModeIsFullMatchesUnanchored ==
    Tokenized /\ ~use_separator_regex /\ ~Anchored => result = ReferenceMatches(inputfile.content)

(***************************************************************************)
(* Reference definitions for the properties of a run.                      *)
(***************************************************************************)
InSet(S, e) == \E x \in S : Equiv(x, e)

\* the set file_to_set builds from the named source
SourceSet(fn) == file_to_set(FileSystem(fn)).set

\* every element a source of the model can hold, and one that none holds
AllElements == UNION {SourceSet(fn) : fn \in FileNames} \cup {<<"B">>, <<"b">>}

\* the input sources read so far that hold an element comparing equal to e
Holders(e) == {i \in 1..Len(input_filenames) : InSet(SourceSet(input_filenames[i]), e)}

Odd(n) == n % 2 = 1

\* the fold of the primary operation over the first k input sources
RECURSIVE Folded(_)
Folded(k) ==
    IF k = 0 THEN {}
    ELSE concat_step(k = 1, set_concat_type, Folded(k - 1), SourceSet(input_filenames[k]))

\* the run is folding its input sources, none of which threw
Folding == pc = "inputs" /\ input_filenames # <<>>

\* the sources named so far
SourcesRead ==
    {input_filenames[i] : i \in 1..Len(input_filenames)}
        \cup {setdifference_filenames[i] : i \in 1..Len(setdifference_filenames)}
        \cup (IF query_filename = "" THEN {} ELSE {query_filename})

CannotOpen(fn) == ~FileSystem(fn).can_open
FailsWhileRead(fn) == FileSystem(fn).can_open /\ FileSystem(fn).fail_at # NoFail

IoFailure == \E fn \in SourcesRead : CannotOpen(fn) \/ FailsWhileRead(fn)
OpenFailure == \E fn \in SourcesRead : CannotOpen(fn)

ConfigurationError ==
    \/ Cardinality(opt_map \cap ConcatOptions) > 1
    \/ Cardinality(opt_map \cap QueryOptions) > 1

BooleanQueries == {"ISEMPTY", "CONTAINS_ELEMENT", "SET_EQUALITY", "SUBSET", "SUPERSET"}

Unique(S) == \A x, y \in S : Equiv(x, y) => x = y

(***************************************************************************)
(* Properties of a run, under Spec.                                        *)
(***************************************************************************)
\* C4: under symmetric difference an element is in the combined set after the fold
\* over one or more sources iff it is in an odd number of them, up to the comparator.
C4_SymDifferenceOddCount ==
    Folding /\ set_concat_type = "SYM_DIFFERENCE" =>
        \A e \in AllElements : InSet(output_set, e) <=> Odd(Cardinality(Holders(e)))

\* a set has been combined with itself, and nothing is left
C4_Witness ==
    /\ Folding /\ set_concat_type = "SYM_DIFFERENCE"
    /\ input_filenames = <<"A.txt", "A.txt">>
    /\ curr_set # {} /\ output_set = {}

\* C5: under intersection the combined set holds exactly the elements present in
\* every source, up to the comparator, and once the accumulator is empty after some
\* source it is empty ever after.
C5_InSetIffInEvery ==
    Folding /\ set_concat_type = "INTERSECTION" =>
        \A e \in AllElements :
            InSet(output_set, e) <=> \A i \in 1..Len(input_filenames) : i \in Holders(e)

C5_EmptyStaysEmpty ==
    input_filenames # <<>> /\ set_concat_type = "INTERSECTION" /\ output_set = {}
        => output_set' = {}

C5_Intersection == [](C5_InSetIffInEvery) /\ [][C5_EmptyStaysEmpty]_vars

\* two sources that share one of their elements have been intersected
C5_Witness ==
    /\ Folding /\ set_concat_type = "INTERSECTION"
    /\ input_filenames = <<"A.txt", "B.txt">> /\ ~input_opts.ignore_case
    /\ output_set = {<<"a">>}

\* C6: after the primary operation, whatever it is, the final set is the combined set
\* minus the union of the subtrahend sets.
C6_SubtractionPass ==
    pc \in {"differences", "done"} /\ exit_code # EXIT_FAILURE =>
        LET subtrahends ==
                UNION {SourceSet(setdifference_filenames[i]) :
                            i \in 1..Len(setdifference_filenames)}
        IN  output_set = {x \in Folded(Len(input_filenames)) : ~InSet(subtrahends, x)}

\* two subtrahends have each removed an element from an intersection
C6_Witness ==
    /\ pc = "differences" /\ set_concat_type = "INTERSECTION" /\ ~input_opts.ignore_case
    /\ input_filenames = <<"A.txt", "A.txt">>
    /\ setdifference_filenames = <<"B.txt", "A.txt">>
    /\ output_set = {}

\* C7: SUBSET succeeds iff every element of the comparison set is in the result, and
\* SUPERSET succeeds iff every element of the result is in the comparison set.
C7_SubsetSupersetDirection ==
    pc = "done" /\ exit_code # EXIT_FAILURE =>
        /\ set_query_type = "SUBSET" =>
              (exit_code = EXIT_SUCCESS <=> \A e \in set_to_check : InSet(output_set, e))
        /\ set_query_type = "SUPERSET" =>
              (exit_code = EXIT_SUCCESS <=> \A e \in output_set : InSet(set_to_check, e))

\* SUBSET has succeeded for a comparison set that is no superset of the result
C7_Witness ==
    /\ pc = "done" /\ set_query_type = "SUBSET" /\ exit_code = EXIT_SUCCESS
    /\ set_to_check # {}
    /\ \E e \in output_set : ~InSet(set_to_check, e)

\* C8: a run ends with EXIT_FAILURE iff an error occurred, with EXIT_QUERY_NEGATIVE iff
\* a boolean query was evaluated without error and is false, and with EXIT_SUCCESS
\* otherwise.
C8_ExitCodes ==
    pc = "done" =>
        /\ exit_code = EXIT_FAILURE <=> (ConfigurationError \/ IoFailure)
        /\ exit_code = EXIT_QUERY_NEGATIVE <=>
              /\ ~(ConfigurationError \/ IoFailure)
              /\ set_query_type \in BooleanQueries /\ success = FALSE
        /\ exit_code = EXIT_SUCCESS <=>
              /\ ~(ConfigurationError \/ IoFailure)
              /\ set_query_type \in BooleanQueries => success = TRUE

\* The same with only the errors the run detects.
ExitCodesOfDetectedErrors ==
    pc = "done" =>
        /\ exit_code = EXIT_FAILURE <=> (ConfigurationError \/ OpenFailure)
        /\ exit_code = EXIT_QUERY_NEGATIVE <=>
              /\ ~(ConfigurationError \/ OpenFailure)
              /\ set_query_type \in BooleanQueries /\ success = FALSE
        /\ exit_code = EXIT_SUCCESS <=>
              /\ ~(ConfigurationError \/ OpenFailure)
              /\ set_query_type \in BooleanQueries => success = TRUE

\* C9: an I/O failure on any source, on opening it or while reading it, aborts the
\* run: the run has ended with EXIT_FAILURE and nothing is written to standard output.
C9_IoFailureAborts ==
    IoFailure => pc = "done" /\ exit_code = EXIT_FAILURE /\ cout = <<>>

\* The same for the sources that cannot be opened.
OpenFailureAborts ==
    OpenFailure => pc = "done" /\ exit_code = EXIT_FAILURE /\ cout = <<>>

\* C10: no set of a run holds two distinct elements that compare equal under the
\* run's comparator.
C10_Uniqueness ==
    Unique(output_set) /\ Unique(curr_set) /\ Unique(set_to_check)

\* under the case-insensitive comparator a source with "A", "a" and "B" has given
\* two elements
C10_Witness ==
    /\ input_opts.ignore_case /\ pc = "inputs"
    /\ input_filenames = <<"B.txt">> /\ curr_set = {<<"A">>, <<"B">>}

(***************************************************************************)
(* Normalization of the stored elements.                                   *)
(***************************************************************************)
\* the element neither starts nor ends with a trim character, and is empty only when
\* include-empty is set
NormalForm(e) ==
    IF e = <<>> THEN input_opts.include_empty_elements
    ELSE Head(e) \notin input_opts.trim_characters
            /\ e[Len(e)] \notin input_opts.trim_characters

\* the sets a run and a call of file_to_set hold
StoredSets == {result, output_set, curr_set, set_to_check}

\* the separator matches of the whole stream leave a zero-length candidate
ZeroLengthCandidate ==
    <<>> \in SplitRuns(input_opts.input_separator_regex, inputfile.content,
                       regex_iterator(input_opts.input_separator_regex,
                                      inputfile.content, FALSE), 0)

\* C11: every stored element of every set is in normal form: it neither starts nor
\* ends with a trim character and the empty string is stored only with include-empty;
\* a zero-length candidate between separators is dropped when include-empty is off and
\* kept as the one empty element when it is on.
C11_Normalization ==
    /\ \A S \in StoredSets : \A e \in S : NormalForm(e)
    /\ Tokenized /\ use_separator_regex /\ ZeroLengthCandidate =>
            (<<>> \in result <=> input_opts.include_empty_elements)

\* two adjacent separators and a candidate of trim characters have left one empty element
C11_Witness ==
    /\ tpc = "done" /\ input_opts.include_empty_elements
    /\ input_opts.input_separator_regex = re_newline /\ input_opts.trim_characters = {"b"}
    /\ inputfile.content = <<"\n", "\n", "b", "a">>
    /\ result = {<<>>, <<"a">>}

(***************************************************************************)
(* Both patterns given.                                                    *)
(***************************************************************************)
\* the pieces of the split by the separator pattern that the element pattern matches
\* as a whole, normalized
FilteredSplit(txt) ==
    Normalized({c \in SplitRuns(input_opts.input_separator_regex, txt,
                                regex_iterator(input_opts.input_separator_regex, txt, FALSE),
                                0) :
                    regex_match(input_opts.input_element_regex, c, FALSE)})

BothPatterns ==
    ~input_opts.input_element_regex.empty /\ ~input_opts.input_separator_regex.empty

\* C12: with both a separator and an element pattern the stream is first split by the
\* separator, the pieces are filtered by the element pattern, and the pieces that
\* pass are trimmed.
C12_SplitThenFilter ==
    Tokenized /\ BothPatterns => result = FilteredSplit(inputfile.content)

(***************************************************************************)
(* First occurrences under the case-insensitive comparator.                *)
(***************************************************************************)
\* the candidates of the split of the whole text, in stream order
RECURSIVE SplitSeq(_, _, _, _)
SplitSeq(re, txt, m, h) ==
    IF m.found
    THEN <<SubSeq(txt, h + 1, m.first)>>
            \o SplitSeq(re, txt, regex_iterator_next(re, txt, FALSE, m), m.second)
    ELSE IF h < Len(txt) THEN <<SubSeq(txt, h + 1, Len(txt))>> ELSE <<>>

RECURSIVE NormalizedSeq(_)
NormalizedSeq(cands) ==
    IF cands = <<>> THEN <<>>
    ELSE LET el == trim_if(Head(cands), input_opts.trim_characters)
         IN  (IF el # <<>> \/ input_opts.include_empty_elements THEN <<el>> ELSE <<>>)
                \o NormalizedSeq(Tail(cands))

\* the bytes a source delivers before its device fails
Delivered(file) ==
    IF file.fail_at = NoFail THEN file.content ELSE SubSeq(file.content, 1, file.fail_at)

\* the elements of a source, in the order of their occurrence in its stream
OccurrencesIn(fn) ==
    NormalizedSeq(SplitSeq(input_opts.input_separator_regex, Delivered(FileSystem(fn)),
                           regex_iterator(input_opts.input_separator_regex,
                                          Delivered(FileSystem(fn)), FALSE), 0))

\* the elements of the first k input sources, in input-stream order
RECURSIVE Occurrences(_)
Occurrences(k) ==
    IF k = 0 THEN <<>> ELSE Occurrences(k - 1) \o OccurrencesIn(input_filenames[k])

\* the first of the occurrences that compares equal to e
RECURSIVE FirstSpelling(_, _)
FirstSpelling(occ, e) ==
    IF occ = <<>> THEN e
    ELSE IF Equiv(Head(occ), e) THEN Head(occ)
    ELSE FirstSpelling(Tail(occ), e)

InFirstSpelling ==
    \A x \in output_set : x = FirstSpelling(Occurrences(Len(input_filenames)), x)

\* the run has read input sources without an exception
InputsRead == pc \in {"inputs", "differences"} /\ input_filenames # <<>>

\* C13: with the case-insensitive comparator, whatever the operation, each element of
\* the resulting set is stored in the spelling of the first occurrence, in input-stream
\* order across all input streams, of an element that compares equal to it.
C13_FirstOccurrenceSpelling ==
    InputsRead /\ input_opts.ignore_case => InFirstSpelling

\* The same for union and intersection.
FirstOccurrenceSpellingUnionIntersection ==
    InputsRead /\ input_opts.ignore_case /\ set_concat_type # "SYM_DIFFERENCE"
        => InFirstSpelling

(***************************************************************************)
(* Growth and compaction of the buffer, under SpecTok.                     *)
(***************************************************************************)
\* a step of the refill loop
RoundStep == tpc = "loop" /\ tpc' \in {"loop", "final"}

\* the buffer of the round after its read: the pending bytes and the bytes read
Filled == buffer \o SubSeq(inputfile.content, rdpos + 1, rdpos')

Doubled == buffersize' = 2 * buffersize

\* the pending bytes are the last used_buffer' bytes of the round's buffer, unchanged
PendingPreserved ==
    /\ used_buffer' = Len(buffer')
    /\ used_buffer' <= Len(Filled)
    /\ buffer' = SubSeq(Filled, Len(Filled) - used_buffer' + 1, Len(Filled))

\* C14: in every refill round the capacity is doubled iff the pending region spans the
\* entire buffer, that is the buffer is filled up to its capacity and nothing of it
\* could be finalized; otherwise the capacity is unchanged; the capacity never shrinks
\* and the pending bytes are carried over byte for byte in both cases (so the capacity
\* is at most twice the longest pending region, or the initial capacity).
C14_DoubledIffPendingSpansBuffer ==
    [][RoundStep =>
          /\ Doubled <=> used_buffer' = buffersize
          /\ ~Doubled => buffersize' = buffersize
          /\ buffersize' >= buffersize
          /\ PendingPreserved]_vars

\* The rule of the code: doubled iff nothing of the round's buffer was handled, which
\* before exhaustion is iff the pending region spans the entire buffer.
DoubledIffNothingHandled ==
    [][RoundStep =>
          /\ Doubled <=> used_buffer' = Len(Filled)
          /\ inputstream' => (Doubled <=> used_buffer' = buffersize)
          /\ ~Doubled => buffersize' = buffersize
          /\ buffersize' >= buffersize
          /\ PendingPreserved]_vars

(***************************************************************************)
(* Forward progress and termination of the tokenizer, under SpecTok.       *)
(***************************************************************************)
\* at the head of the loop the pending bytes do not fill the buffer
RoomToRead == tpc = "loop" => used_buffer < buffersize

\* the bytes of the stream not yet read
Unread == Len(inputfile.content) - rdpos

\* a round after which the loop goes on has read at least one byte, and no more than
\* the stream holds: the loop ends after at most Unread + 1 rounds
ReadsNewByte == RoundStep /\ tpc' = "loop" => Unread' < Unread /\ Unread' >= 0

\* the loop has ended
LoopEnded == tpc \in {"final", "done"}

\* the stream has reported its exhaustion: a read came short at the end of its bytes
Exhausted == ~inputstream /\ Unread = 0

\* C15: at the start of every round the pending bytes are fewer than the capacity, so
\* every round before exhaustion reads a new byte; for every stream and pattern the
\* loop terminates (each round that does not end it lowers the count of unread
\* bytes), and it ends only after the stream has reported exhaustion, every byte read.
C15_ProgressAndTermination ==
    /\ []RoomToRead
    /\ [][ReadsNewByte]_vars
    /\ [](LoopEnded => Exhausted)

\* The same, the end of the loop taken only for the sources whose reads do not fail.
ProgressAndTerminationWithoutReadError ==
    /\ []RoomToRead
    /\ [][ReadsNewByte]_vars
    /\ [](LoopEnded /\ inputfile.fail_at = NoFail => Exhausted)

(***************************************************************************)
(* Equality against the two inclusions, under Spec.                        *)
(***************************************************************************)
\* SUBSET and SUPERSET would both succeed for the result and the comparison set
BothInclusions ==
    /\ \A e \in set_to_check : InSet(output_set, e)
    /\ \A e \in output_set : InSet(set_to_check, e)

EqualityAnswered ==
    pc = "done" /\ exit_code # EXIT_FAILURE /\ set_query_type = "SET_EQUALITY"

EqualityIffSubsetAndSupersetCaseSensitive ==
    EqualityAnswered /\ ~input_opts.ignore_case =>
        (exit_code = EXIT_SUCCESS <=> BothInclusions)

====
